---- MODULE Spec2Model ----
(***************************************************************************)
(* State-machine model of the Vintage Story launcher: the version page's   *)
(* download supervisor (spawn_download / poll_task / download_and_extract), *)
(* the blocking version-list fetch, and the instance registry.             *)
(***************************************************************************)
EXTENDS Integers, Sequences, FiniteSets, TLC

(*------------------------------ bounds -----------------------------------*)
\* number of download workers ever spawned in one run
MaxTasks == 2
\* the longest archive body, in full read buffers
MaxChunks == 2
\* the longest instance registry
MaxInstances == 2

\* number of mod-page fetch workers ever spawned in one run
MaxFetches == 4
\* the longest version catalog the sort is checked on
MaxCatalog == 3

(*------------------------- program constants -----------------------------*)
\* let mut buf = [0u8; 8192];
BufSize == 8192
\* self.start_fetch(1, 96)
FirstPageSize == 96
\* self.start_fetch(self.next_page, 24)
NextPageSize == 24

(*--------------------------- small helpers -------------------------------*)
None == <<>>
Some(x) == <<x>>

Min(a, b) == IF a <= b THEN a ELSE b

(*--------------------------- version strings -----------------------------*)
\* A string is the sequence of its characters.
Str120  == <<"1", ".", "2", "0">>
Str1210 == <<"1", ".", "2", "1", ".", "0">>
Str121  == <<"1", ".", "2", "1">>
Str121rc == <<"1", ".", "2", "1", "-", "r", "c", ".", "1">>
StrBad  == <<"x", ".", "1">>

VARIABLES
    view,          \* VsLauncherApp.view
    ui_pc,         \* where the foreground thread is: "idle" between frames,
                   \* "fetch_versions" while blocked in the HTTP request
    versions,      \* VsLauncherApp.versions : VersionPage
    workers,       \* the download threads spawned so far, by task number
    chans,         \* the crossbeam channel of each task: events sent, not yet received
    sent,          \* history: the events each worker sent, in order
    consumed,      \* history: the events poll_task received of each task, in order
                   \* (both in full until a later task starts, then only the
                   \* terminal events of the task are kept)
    disk,          \* versions_dir(): version -> the paths that exist under it
    instances,     \* VsLauncherApp.instances : InstancesPage
    folders,       \* <data>/vs_launcher/instances: the instance folders on disk
    saved,         \* instances.json: the persisted list (None: no file)
    selected_idx,  \* VsLauncherApp.selected_idx, counted from 1
    modes,         \* version -> the paths below it that have an execute bit set
    procs,         \* the child processes spawned so far: [ver, bin]
    mods,          \* VsLauncherApp.mods : ModsPage
    mods_workers,  \* the fetch threads spawned so far, by number
    mods_chans,    \* the mpsc channel of each fetch: results sent, not yet received
    scroll         \* the scroll area of the mods grid: the last cell in view

vars == <<view, ui_pc, versions, workers, chans, sent, consumed, disk,
          instances, folders, saved, selected_idx, modes, procs,
          mods, mods_workers, mods_chans, scroll>>

dlVars   == <<workers, chans, sent, consumed>>
instVars == <<instances, folders, saved>>
launchVars == <<selected_idx, modes, procs>>
\* what the Versions page, the workers and the Instances page leave alone
modsVars == <<mods, mods_workers, mods_chans, scroll>>
appVars  == <<launchVars, modsVars>>

(*------------------- strings: split / join / contains --------------------*)
\* str::split(sep): the pieces between the separators ("" gives one empty piece)
RECURSIVE Split(_, _)
Split(s, sep) ==
    IF \A i \in 1..Len(s) : s[i] # sep
    THEN <<s>>
    ELSE LET i == CHOOSE k \in 1..Len(s) :
                      s[k] = sep /\ \A j \in 1..(k - 1) : s[j] # sep
         IN  <<SubSeq(s, 1, i - 1)>> \o Split(SubSeq(s, i + 1, Len(s)), sep)

\* [&str]::join(sep)
RECURSIVE Join(_, _)
Join(parts, sep) ==
    IF Len(parts) = 0 THEN <<>>
    ELSE IF Len(parts) = 1 THEN parts[1]
    ELSE parts[1] \o <<sep>> \o Join(Tail(parts), sep)

\* str::contains(sub)
Contains(s, sub) ==
    \E i \in 1..(Len(s) - Len(sub) + 1) : SubSeq(s, i, i + Len(sub) - 1) = sub

\* str::trim_start_matches(c)
RECURSIVE TrimStart(_, _)
TrimStart(s, c) ==
    IF s # <<>> /\ Head(s) = c THEN TrimStart(Tail(s), c) ELSE s

(*------------------------- semver::Version -------------------------------*)
Digits == <<"0", "1", "2", "3", "4", "5", "6", "7", "8", "9">>
\* the characters of the modelled strings, in ASCII order
Ascii == <<"-", ".">> \o Digits \o <<"_", "a", "c", "d", "e", "p", "r", "v", "x">>

IsDigit(c) == \E i \in 1..Len(Digits) : Digits[i] = c
DigitVal(c) == (CHOOSE i \in 1..Len(Digits) : Digits[i] = c) - 1
CharRank(c) == CHOOSE i \in 1..Len(Ascii) : Ascii[i] = c

AllDigits(s) == \A i \in 1..Len(s) : IsDigit(s[i])

RECURSIVE NumVal(_)
NumVal(s) == IF s = <<>> THEN 0 ELSE NumVal(SubSeq(s, 1, Len(s) - 1)) * 10 + DigitVal(s[Len(s)])

\* a numeric identifier of semver: digits only, not empty, no leading zero
IsNumeric(s) == s # <<>> /\ AllDigits(s) /\ (Len(s) > 1 => s[1] # "0")

\* a pre-release identifier: not empty, [0-9A-Za-z-], numeric ones without leading zero
IsPreIdent(s) ==
    /\ s # <<>>
    /\ \A i \in 1..Len(s) : s[i] \notin {".", "_"}
    /\ (AllDigits(s) => IsNumeric(s))

\* semver::Version::parse: MAJOR.MINOR.PATCH[-PRE], strictly
VersionParse(text) ==
    LET dash == Split(text, "-")
        core == Split(dash[1], ".")
        pre  == IF Len(dash) > 1
                THEN Split(Join(Tail(dash), "-"), ".")
                ELSE <<>>
    IN  IF /\ Len(core) = 3
           /\ \A i \in 1..3 : IsNumeric(core[i])
           /\ \A i \in 1..Len(pre) : IsPreIdent(pre[i])
        THEN Some([major |-> NumVal(core[1]), minor |-> NumVal(core[2]),
                   patch |-> NumVal(core[3]), pre |-> pre])
        ELSE None

\* Ordering as -1 (Less), 0 (Equal), 1 (Greater)
CmpInt(a, b) == IF a < b THEN -1 ELSE IF a > b THEN 1 ELSE 0

RECURSIVE CmpStr(_, _)
CmpStr(a, b) ==
    IF a = <<>> /\ b = <<>> THEN 0
    ELSE IF a = <<>> THEN -1
    ELSE IF b = <<>> THEN 1
    ELSE IF Head(a) # Head(b) THEN CmpInt(CharRank(Head(a)), CharRank(Head(b)))
    ELSE CmpStr(Tail(a), Tail(b))

\* one pre-release identifier against another: numbers by value and below words
CmpIdent(a, b) ==
    IF AllDigits(a) /\ AllDigits(b) THEN CmpInt(NumVal(a), NumVal(b))
    ELSE IF AllDigits(a) THEN -1
    ELSE IF AllDigits(b) THEN 1
    ELSE CmpStr(a, b)

RECURSIVE CmpIdents(_, _)
CmpIdents(a, b) ==
    IF a = <<>> /\ b = <<>> THEN 0
    ELSE IF a = <<>> THEN -1
    ELSE IF b = <<>> THEN 1
    ELSE IF CmpIdent(Head(a), Head(b)) # 0 THEN CmpIdent(Head(a), Head(b))
    ELSE CmpIdents(Tail(a), Tail(b))

\* Prerelease: the empty pre-release (a release) is above every pre-release
CmpPre(a, b) ==
    IF a = <<>> /\ b = <<>> THEN 0
    ELSE IF a = <<>> THEN 1
    ELSE IF b = <<>> THEN -1
    ELSE CmpIdents(a, b)

CmpVersion(a, b) ==
    IF a.major # b.major THEN CmpInt(a.major, b.major)
    ELSE IF a.minor # b.minor THEN CmpInt(a.minor, b.minor)
    ELSE IF a.patch # b.patch THEN CmpInt(a.patch, b.patch)
    ELSE CmpPre(a.pre, b.pre)

\* Option<Version>::cmp: None < Some(_)
\* Option's ordering with None above every Some
CmpOption_none_greatest(sa, sb) ==
    IF sa = None /\ sb = None THEN 0
    ELSE IF sa = None THEN 1
    ELSE IF sb = None THEN -1
    ELSE CmpVersion(sa[1], sb[1])

\* Option<Version>::cmp: None < Some(_), Some by the version
CmpOption(sa, sb) ==
    IF sa = None /\ sb = None THEN 0
    ELSE IF sa = None THEN -1
    ELSE IF sb = None THEN 1
    ELSE CmpVersion(sa[1], sb[1])

(*--------------------------- VersionOrdering -----------------------------*)
\* while nums.len() < 3 { nums.push("0") }
RECURSIVE PadNums(_)
PadNums(nums) == IF Len(nums) < 3 THEN PadNums(Append(nums, <<"0">>)) ELSE nums

\* VersionPage::parse_semver
parse_semver(raw) ==
    LET parts == Split(raw, "-")
        core  == parts[1]
        nums0 == Split(core, ".")
        nums  == PadNums(nums0)
        fix0  == Join(nums, ".")
        fix   == IF Len(parts) > 1 THEN fix0 \o <<"-">> \o parts[2] ELSE fix0
    IN  VersionParse(fix)

\* the comparator closure of sort_versions
sort_cmp(a, b, ascending) ==
    LET ord == CmpOption(parse_semver(a.ver), parse_semver(b.ver))
    IN  IF ascending THEN ord ELSE -ord

\* an insertion that puts x in front of the elements that compare equal to it
RECURSIVE UnstableInsert(_, _, _)
UnstableInsert(sorted, x, ascending) ==
    IF sorted = <<>> THEN <<x>>
    ELSE IF sort_cmp(sorted[Len(sorted)], x, ascending) < 0 THEN Append(sorted, x)
    ELSE Append(UnstableInsert(SubSeq(sorted, 1, Len(sorted) - 1), x, ascending),
                sorted[Len(sorted)])

\* slice::sort_by is a stable sort: x goes behind every element not greater than it
RECURSIVE StableInsert(_, _, _)
StableInsert(sorted, x, ascending) ==
    IF sorted = <<>> THEN <<x>>
    ELSE IF sort_cmp(sorted[Len(sorted)], x, ascending) <= 0 THEN Append(sorted, x)
    ELSE Append(StableInsert(SubSeq(sorted, 1, Len(sorted) - 1), x, ascending),
                sorted[Len(sorted)])

RECURSIVE SortBy(_, _)
SortBy(list, ascending) ==
    IF list = <<>> THEN <<>>
    ELSE StableInsert(SortBy(SubSeq(list, 1, Len(list) - 1), ascending),
                      list[Len(list)], ascending)

\* VersionPage::sort_versions
sort_versions(page) ==
    [page EXCEPT !.versions = SortBy(page.versions, page.sort_ascending)]

(*------------------------------ the world --------------------------------*)
Views == {"Home", "Versions", "Instances", "Mods"}

\* what the game-versions endpoint may answer: arrays of {name, type?}
CatalogStable == << [name |-> <<"v">> \o Str121, type |-> None],
                    [name |-> <<"v">> \o Str120, type |-> Some("stable")] >>
CatalogMixed  == << [name |-> <<"v">> \o Str121rc, type |-> None],
                    [name |-> StrBad, type |-> None] >>
Catalogs == {CatalogStable, CatalogMixed}

\* every version name that may reach the disk
VersionNames == UNION {{TrimStart(c[i].name, "v") : i \in 1..Len(c)} : c \in Catalogs}

\* the archive bodies the CDN may serve, in bytes
ContentLengths == {MaxChunks * BufSize, BufSize + (BufSize \div 4)}

\* what one read() into the 8 KiB buffer may return with `remaining` bytes left
ReadSizes(remaining) == {Min(BufSize, remaining), Min(BufSize \div 2, remaining)}

\* paths below versions/<ver>/
ArchiveFile == "vs_archive.tar.gz"
InstallDir  == "install"
\* what an archive may unpack to, below install/
LayoutLinux == {"install/vintagestory", "install/vintagestory/Vintagestory",
                "install/vintagestory/run.sh"}
LayoutEmpty == {}
Layouts == {LayoutLinux, LayoutEmpty}

(*------------------------------- messages --------------------------------*)
\* the strings shown in the status line, by their format and arguments
Msg(kind, ver, err, n) == [kind |-> kind, ver |-> ver, err |-> err, n |-> n]
MsgFetching       == Msg("Fetching list", <<>>, "", 0)
MsgFound(n)       == Msg("Found versions", <<>>, "", n)
MsgShape          == Msg("Unexpected JSON shape", <<>>, "", 0)
MsgError(e)       == Msg("Error", <<>>, e, 0)
MsgAlreadyRunning == Msg("A download is already running", <<>>, "", 0)
MsgDownloading(v) == Msg("Downloading", v, "", 0)
MsgExtracted(v)   == Msg("downloaded & extracted", v, "", 0)
MsgDeleteError(e) == Msg("Delete error", <<>>, e, 0)
MsgDeleted        == Msg("Instance deleted", <<>>, "", 0)

\* enum ProgressEvent; a fraction is kept exact, as numerator and denominator
Progress(num, den) == [type |-> "Progress", num |-> num, den |-> den, err |-> ""]
Error(e)           == [type |-> "Error", num |-> 0, den |-> 1, err |-> e]
Finished           == [type |-> "Finished", num |-> 0, den |-> 1, err |-> ""]
IsTerminal(evt)    == evt.type \in {"Error", "Finished"}

Frac(num, den) == [num |-> num, den |-> den]

\* enum TaskState
TaskNone              == [state |-> "None", ver |-> <<>>, rx |-> 0]
TaskInProgress(v, rx) == [state |-> "InProgress", ver |-> v, rx |-> rx]
TaskDone              == [state |-> "Done", ver |-> <<>>, rx |-> 0]

(*---------------------------- VersionPage --------------------------------*)
\* #[derive(Default)] struct VersionPage
VersionPageDefault ==
    [versions |-> <<>>, status_msg |-> None, progress_frac |-> None,
     task |-> TaskNone, sort_ascending |-> FALSE, loaded_once |-> FALSE]

\* VersionPage::is_installed, on the paths below versions/<ver>/
is_installed(paths) ==
    \/ "install/vintagestory" \in paths
    \/ "install/vintagestory.exe" \in paths
    \/ "install/vintagestory/vintagestory" \in paths

\* on_event with Finished leaving the fraction on screen
on_event_keeps_fraction(evt, st, ver_name) ==
    IF evt.type = "Progress"
    THEN [st EXCEPT !.progress_frac = Some(Frac(evt.num, evt.den))]
    ELSE IF evt.type = "Finished"
    THEN [st EXCEPT !.status_msg = Some(MsgExtracted(ver_name)),
                    !.next_state = Some(TaskDone)]
    ELSE [st EXCEPT !.status_msg = Some(MsgError(evt.err)),
                    !.next_state = Some(TaskNone),
                    !.progress_frac = None]

\* on_event with Finished going to TaskState::None, as Error does
on_event_finished_to_none(evt, st, ver_name) ==
    IF evt.type = "Progress"
    THEN [st EXCEPT !.progress_frac = Some(Frac(evt.num, evt.den))]
    ELSE IF evt.type = "Finished"
    THEN [st EXCEPT !.status_msg = Some(MsgExtracted(ver_name)),
                    !.next_state = Some(TaskNone),
                    !.progress_frac = None]
    ELSE [st EXCEPT !.status_msg = Some(MsgError(evt.err)),
                    !.next_state = Some(TaskNone),
                    !.progress_frac = None]

\* one turn of the while-let loop of poll_task: the match on the event
on_event(evt, st, ver_name) ==
    IF evt.type = "Progress"
    THEN [st EXCEPT !.progress_frac = Some(Frac(evt.num, evt.den))]
    ELSE IF evt.type = "Finished"
    THEN [st EXCEPT !.status_msg = Some(MsgExtracted(ver_name)),
                    !.next_state = Some(TaskDone),
                    !.progress_frac = None]
    ELSE [st EXCEPT !.status_msg = Some(MsgError(evt.err)),
                    !.next_state = Some(TaskNone),
                    !.progress_frac = None]

\* try_recv taking the newest event instead of the oldest
try_recv_lifo(q) == [evt |-> q[Len(q)], rest |-> SubSeq(q, 1, Len(q) - 1)]

\* rx.try_recv(): the event at the head of the queue
try_recv(q) == [evt |-> Head(q), rest |-> Tail(q)]

\* while let Ok(evt) = rx.try_recv() { ... }: until the queue is empty
RECURSIVE drain(_, _, _)
drain(q, st, ver_name) ==
    IF q = <<>> THEN st
    ELSE LET r == try_recv(q)
         IN  drain(r.rest,
                   [on_event(r.evt, st, ver_name) EXCEPT !.log = Append(@, r.evt)],
                   ver_name)

\* poll_task writing next_state back even when no terminal event was drained
poll_task_resets(page, q) ==
    IF page.task.state = "InProgress"
    THEN LET st == drain(q, [status_msg |-> page.status_msg,
                             progress_frac |-> page.progress_frac,
                             next_state |-> None, log |-> <<>>],
                         page.task.ver)
         IN  [page |-> [page EXCEPT !.status_msg = st.status_msg,
                                    !.progress_frac = st.progress_frac,
                                    !.task = IF st.next_state # None
                                             THEN st.next_state[1] ELSE TaskNone],
              log |-> st.log]
    ELSE [page |-> page, log |-> <<>>]

\* poll_task turning a Done left by the previous poll into None
poll_task_done_expires(page, q) ==
    IF page.task.state = "InProgress"
    THEN LET st == drain(q, [status_msg |-> page.status_msg,
                             progress_frac |-> page.progress_frac,
                             next_state |-> None, log |-> <<>>],
                         page.task.ver)
         IN  [page |-> [page EXCEPT !.status_msg = st.status_msg,
                                    !.progress_frac = st.progress_frac,
                                    !.task = IF st.next_state # None
                                             THEN st.next_state[1] ELSE @],
              log |-> st.log]
    ELSE [page |-> [page EXCEPT !.task = TaskNone], log |-> <<>>]

\* VersionPage::poll_task on the page and the queue of its receiver:
\* the page afterwards, and the events received
poll_task(page, q) ==
    IF page.task.state = "InProgress"
    THEN LET st == drain(q, [status_msg |-> page.status_msg,
                             progress_frac |-> page.progress_frac,
                             next_state |-> None, log |-> <<>>],
                         page.task.ver)
         IN  [page |-> [page EXCEPT !.status_msg = st.status_msg,
                                    !.progress_frac = st.progress_frac,
                                    !.task = IF st.next_state # None
                                             THEN st.next_state[1] ELSE @],
              log |-> st.log]
    ELSE [page |-> page, log |-> <<>>]

\* spawn_download without the check for a running task
spawn_download_unguarded(page, v, rx) ==
    [page |-> [page EXCEPT !.task = TaskInProgress(v.ver, rx),
                           !.progress_frac = Some(Frac(0, 1)),
                           !.status_msg = Some(MsgDownloading(v.ver))],
     spawned |-> TRUE]

\* spawn_download that leaves the progress bar as it was
spawn_download_no_fraction(page, v, rx) ==
    IF page.task.state = "InProgress"
    THEN [page |-> [page EXCEPT !.status_msg = Some(MsgAlreadyRunning)],
          spawned |-> FALSE]
    ELSE [page |-> [page EXCEPT !.task = TaskInProgress(v.ver, rx),
                                !.status_msg = Some(MsgDownloading(v.ver))],
          spawned |-> TRUE]

\* VersionPage::spawn_download with the number of the channel it would create:
\* the page afterwards, and whether a worker thread was spawned
spawn_download(page, v, rx) ==
    IF page.task.state = "InProgress"
    THEN [page |-> [page EXCEPT !.status_msg = Some(MsgAlreadyRunning)],
          spawned |-> FALSE]
    ELSE [page |-> [page EXCEPT !.task = TaskInProgress(v.ver, rx),
                                !.progress_frac = Some(Frac(0, 1)),
                                !.status_msg = Some(MsgDownloading(v.ver))],
          spawned |-> TRUE]

\* fetch_versions up to the blocking request
fetch_versions_begin(page) ==
    [page EXCEPT !.status_msg = Some(MsgFetching), !.versions = <<>>]

\* the channel of a catalog entry that has no "type"
infer_kind(raw) ==
    IF Contains(raw, <<"r", "c">>) THEN "rc"
    ELSE IF Contains(raw, <<"d", "e", "v">>) THEN "dev"
    ELSE IF Contains(raw, <<"p", "r", "e">>) THEN "preview"
    ELSE "stable"

\* fetch_versions from the answer of the request on
\* res: [tag |-> "ok", arr |-> array] | [tag |-> "shape"] | [tag |-> "err"]
fetch_versions_end(page, res) ==
    IF res.tag = "ok"
    THEN LET pushed == [i \in 1..Len(res.arr) |->
                          [ver  |-> TrimStart(res.arr[i].name, "v"),
                           kind |-> IF res.arr[i].type # None
                                    THEN res.arr[i].type[1]
                                    ELSE infer_kind(res.arr[i].name)]]
             sorted == sort_versions([page EXCEPT !.versions = @ \o pushed])
         IN  [sorted EXCEPT !.status_msg = Some(MsgFound(Len(sorted.versions)))]
    ELSE IF res.tag = "shape"
    THEN [page EXCEPT !.status_msg = Some(MsgShape)]
    ELSE [page EXCEPT !.status_msg = Some(MsgError("network"))]

FetchOk(arr) == [tag |-> "ok", arr |-> arr]
FetchShape   == [tag |-> "shape", arr |-> <<>>]
FetchErr     == [tag |-> "err", arr |-> <<>>]
FetchResults == {FetchOk(c) : c \in Catalogs} \cup {FetchShape, FetchErr}

(*------------------------------ InstancesPage ----------------------------*)
InstanceNames == {"A", "B"}

\* InstancesPage::load_instances: the list in instances.json, or the empty list
load_instances(file) == IF file = None THEN <<>> ELSE file[1]

\* impl Default for InstancesPage
InstancesPageDefault(file) ==
    [instances |-> load_instances(file), new_name |-> "", new_version |-> <<>>,
     show_modal |-> FALSE, status_msg |-> None, pending_delete |-> None]

(*-------------------------------- ModsPage -------------------------------*)
\* impl Default for ModsPage
ModsPageDefault ==
    [mods |-> <<>>, next_page |-> 1, total_pages |-> 0, loading |-> FALSE, rx |-> None]

\* how many mods the server lists, per request
ServerSizes == {400, 30, 0}

CeilDiv(a, b) == (a + b - 1) \div b

\* fetch_page(page, size) against a server that pages a list of n mods by offset:
\* a mod is written as its place in the server's list
fetch_page(page, size, n) ==
    LET first == (page - 1) * size
        last  == Min(page * size, n)
    IN  [tag |-> "ok",
         mods |-> [k \in 1..(IF last > first THEN last - first ELSE 0) |-> first + k - 1],
         total |-> CeilDiv(n, size)]
FetchFailed == [tag |-> "err", mods |-> <<>>, total |-> 0]

\* start_fetch that leaves the loading flag alone
start_fetch_no_flag(page, p, size, rx) ==
    [page EXCEPT !.rx = Some(rx), !.next_page = p + 1]

\* ModsPage::start_fetch(p, size) with the number of the channel it creates
start_fetch(page, p, size, rx) ==
    [page EXCEPT !.loading = TRUE, !.rx = Some(rx), !.next_page = p + 1]

\* the "poll worker" block of ModsPage::ui on the queue of the receiver
mods_poll(page, q) ==
    IF page.rx # None /\ q # <<>>
    THEN LET got == [page EXCEPT !.loading = FALSE, !.rx = None]
         IN  IF Head(q).tag = "ok"
             THEN [got EXCEPT !.total_pages = Head(q).total,
                              !.mods = @ \o Head(q).mods]
             ELSE got
    ELSE page

\* need_more after the loop over self.mods.iter().enumerate()
need_more(page) ==
    \E i \in 0..(Len(page.mods) - 1) :
       /\ ~page.loading
       /\ page.next_page <= page.total_pages
       /\ i >= (Len(page.mods) * 4) \div 5

\* ModsPage::ui for one frame; rx1 is the number of the channel a fetch started in
\* this frame gets (a fetch started before the poll cannot have answered by the
\* poll, and then loading keeps need_more false: one start per frame at most)
mods_ui(page, q, rx1) ==
    IF page.mods = <<>> /\ ~page.loading
    THEN [page |-> start_fetch(page, 1, FirstPageSize, rx1), polled |-> FALSE,
          started |-> Some([page |-> 1, size |-> FirstPageSize])]
    ELSE LET p == mods_poll(page, q)
         IN  IF need_more(p)
             THEN [page |-> start_fetch(p, p.next_page, NextPageSize, rx1),
                   polled |-> p # page,
                   started |-> Some([page |-> p.next_page, size |-> NextPageSize])]
             ELSE [page |-> p, polled |-> p # page, started |-> None]

(*--------------------------------- Init ----------------------------------*)
NoDisk == [v \in VersionNames |-> {}]
\* the data directory at start-up: fresh, or with 1.20 left installed by an earlier run
InstalledDisk == [NoDisk EXCEPT ![Str120] = {ArchiveFile, InstallDir} \cup LayoutLinux]

Init ==
    /\ view = "Home"
    /\ ui_pc = "idle"
    /\ versions = VersionPageDefault
    /\ workers = <<>>
    /\ chans = <<>>
    /\ sent = <<>>
    /\ consumed = <<>>
    /\ disk = NoDisk
    /\ folders = {}
    /\ saved = None
    /\ instances = InstancesPageDefault(saved)
    /\ selected_idx = None
    /\ modes = [v \in VersionNames |-> {}]
    /\ procs = {}
    /\ mods = ModsPageDefault
    /\ mods_workers = <<>>
    /\ mods_chans = <<>>
    /\ scroll = 0

(*----------------------- the foreground: Versions ------------------------*)
\* whether the Receiver of task i is still held by the page
RxAlive(i) == versions.task.state = "InProgress" /\ versions.task.rx = i

\* the queue poll_task reads this frame
RxQueue == IF versions.task.state = "InProgress" THEN chans[versions.task.rx] ELSE <<>>

\* self.poll_task(ctx), the first statement of VersionPage::ui
Polled == poll_task(versions, RxQueue)

NoClick          == [kind |-> "none", v |-> [ver |-> <<>>, kind |-> ""]]
ClickRefresh     == [kind |-> "refresh", v |-> [ver |-> <<>>, kind |-> ""]]
ClickSort        == [kind |-> "sort", v |-> [ver |-> <<>>, kind |-> ""]]
ClickDownload(v) == [kind |-> "download", v |-> v]

\* VersionPage::ui for one frame with at most one click in it, up to the point
\* where the frame ends or blocks in the request of fetch_versions
versions_ui(click) ==
    LET p == Polled.page
    IN  IF ~p.loaded_once \/ click.kind = "refresh"
        THEN [page |-> fetch_versions_begin(p), ui_pc |-> "fetch_versions",
              spawned |-> FALSE]
        ELSE IF click.kind = "sort"
        THEN [page |-> sort_versions([p EXCEPT !.sort_ascending = ~@]),
              ui_pc |-> "idle", spawned |-> FALSE]
        ELSE IF click.kind = "download"
        THEN [page |-> spawn_download(p, click.v, Len(workers) + 1).page,
              ui_pc |-> "idle",
              spawned |-> spawn_download(p, click.v, Len(workers) + 1).spawned]
        ELSE [page |-> p, ui_pc |-> "idle", spawned |-> FALSE]

\* the thread::spawn of spawn_download: the worker before its first statement
NewWorker(ver) == [pc |-> "get", ver |-> ver, total |-> 0, downloaded |-> 0,
                   remaining |-> 0]

\* the histories of the tasks before the one that starts: their terminal events
Retire(logs) == [i \in 1..Len(logs) |-> SelectSeq(logs[i], IsTerminal)]

\* the state after one frame of the Versions page
\* (r and polled are bound, not defined, so that they are computed once)
VersionsStep(click) ==
    /\ ui_pc = "idle"
    /\ \E r \in {versions_ui(click)}, polled \in {Polled} :
         LET n    == Len(polled.log)
             rx   == versions.task.rx
             ch   == IF versions.task.state = "InProgress"
                     THEN [chans EXCEPT ![rx] = SubSeq(@, n + 1, Len(@))]
                     ELSE chans
             cons == IF versions.task.state = "InProgress"
                     THEN [consumed EXCEPT ![rx] = @ \o polled.log]
                     ELSE consumed
         IN  /\ r.spawned => Len(workers) < MaxTasks
             /\ versions' = r.page
             /\ ui_pc' = r.ui_pc
             /\ IF r.spawned
                THEN /\ workers' = Append(workers, NewWorker(click.v.ver))
                     /\ chans' = Append(ch, <<>>)
                     /\ sent' = Append(Retire(sent), <<>>)
                     /\ consumed' = Append(Retire(cons), <<>>)
                ELSE /\ chans' = ch
                     /\ consumed' = cons
                     /\ UNCHANGED <<workers, sent>>
    /\ UNCHANGED <<disk, instVars, appVars>>

(*------------------------- the foreground: Mods --------------------------*)
\* the queue the poll of ModsPage::ui reads this frame
ModsQueue == IF mods.rx # None THEN mods_chans[mods.rx[1]] ELSE <<>>

\* the state after one frame of the Mods page
ModsStep ==
    /\ ui_pc = "idle"
    /\ LET r == mods_ui(mods, ModsQueue, Len(mods_workers) + 1)
           ch == IF r.polled THEN [mods_chans EXCEPT ![mods.rx[1]] = Tail(@)]
                 ELSE mods_chans
       IN  /\ r.started # None => Len(mods_workers) < MaxFetches
           /\ mods' = r.page
           /\ IF r.started # None
              THEN /\ mods_workers' = Append(mods_workers,
                                             [pc |-> "fetch", page |-> r.started[1].page,
                                              size |-> r.started[1].size])
                   /\ mods_chans' = Append(ch, <<>>)
              ELSE /\ mods_chans' = ch
                   /\ UNCHANGED mods_workers

\* a frame in which a button of the top menu is clicked: the new view is drawn
MenuClick(v) ==
    /\ ui_pc = "idle"
    /\ view' = v
    /\ IF v = "Versions"
       THEN VersionsStep(NoClick)
       ELSE IF v = "Mods"
       THEN /\ ModsStep
            /\ UNCHANGED <<ui_pc, versions, dlVars, disk, instVars, launchVars, scroll>>
       ELSE UNCHANGED <<ui_pc, versions, dlVars, disk, instVars, appVars>>

\* a frame of the Versions page without a click (the 10 ms ticker, a repaint)
VersionsFrame ==
    /\ view = "Versions"
    /\ VersionsStep(NoClick)
    /\ UNCHANGED view

RefreshClick ==
    /\ view = "Versions"
    /\ VersionsStep(ClickRefresh)
    /\ UNCHANGED view

SortClick ==
    /\ view = "Versions"
    /\ VersionsStep(ClickSort)
    /\ UNCHANGED view

\* the rows of the grid a frame draws: every listed version (the filter is left
\* empty) with the answer of the installed-check, which probes the disk below
\* versions/<ver>/install for each row, whatever the task state is
version_rows(page, d) ==
    [k \in 1..Len(page.versions) |->
        [ver |-> page.versions[k].ver,
         installed |-> is_installed(d[page.versions[k].ver])]]

\* "Download" is drawn on the rows whose version is not installed
DownloadClick(i) ==
    /\ view = "Versions"
    /\ i \in 1..Len(versions.versions)
    /\ ~version_rows(versions, disk)[i].installed
    /\ VersionsStep(ClickDownload(versions.versions[i]))
    /\ UNCHANGED view

\* the blocking request of fetch_versions returns; the frame ends
FetchReturn(res) ==
    /\ ui_pc = "fetch_versions"
    /\ versions' = [fetch_versions_end(versions, res) EXCEPT !.loaded_once = TRUE]
    /\ ui_pc' = "idle"
    /\ UNCHANGED <<view, dlVars, disk, instVars, appVars>>

(*------------------- the worker: download_and_extract --------------------*)
\* a thread that has returned: its locals are gone
Ended(w) == [NewWorker(w.ver) EXCEPT !.pc = "end"]

\* the event of a chunk that forgets the bytes of the chunks before it
progress_event_chunk_only(downloaded_before, n, total) == Progress(n, total)

\* ProgressEvent::Progress(downloaded as f32 / total), downloaded += n just done
progress_event(downloaded_before, n, total) == Progress(downloaded_before + n, total)

\* tx.send(evt): queued if the receiver still exists, dropped otherwise
Send(i, evts) ==
    IF RxAlive(i)
    THEN /\ chans' = [chans EXCEPT ![i] = @ \o evts]
         /\ sent' = [sent EXCEPT ![i] = @ \o evts]
    ELSE UNCHANGED <<chans, sent>>

\* a thread that goes on after sending Error(e)
Fail_lingers(i, e) ==
    /\ UNCHANGED workers
    /\ Send(i, <<Error(e)>>)

\* a closure that drops the error instead of sending it
Fail_silent(i, e) ==
    /\ workers' = [workers EXCEPT ![i] = Ended(@)]
    /\ UNCHANGED <<chans, sent>>

\* download_and_extract returns Err(e): the closure sends Error(e), the thread ends
Fail(i, e) ==
    /\ workers' = [workers EXCEPT ![i] = Ended(@)]
    /\ Send(i, <<Error(e)>>)

\* Client::new().get(url).send() and resp.content_length()
HttpGet(i) ==
    /\ i \in 1..Len(workers)
    /\ workers[i].pc = "get"
    /\ \/ Fail(i, "network")
       \/ \E len \in ContentLengths, known \in BOOLEAN :
            /\ workers' = [workers EXCEPT ![i].pc = "create",
                                          ![i].total = IF known THEN len ELSE 0,
                                          ![i].remaining = len]
            /\ UNCHANGED <<chans, sent>>
    /\ UNCHANGED <<view, ui_pc, versions, consumed, disk, instVars, appVars>>

\* fs::create_dir_all(parent) and fs::File::create(archive_path)
CreateArchive(i) ==
    /\ i \in 1..Len(workers)
    /\ workers[i].pc = "create"
    /\ \/ Fail(i, "io") /\ UNCHANGED disk
       \/ /\ workers' = [workers EXCEPT ![i].pc = "read"]
          /\ disk' = [disk EXCEPT ![workers[i].ver] = @ \cup {ArchiveFile}]
          /\ UNCHANGED <<chans, sent>>
    /\ UNCHANGED <<view, ui_pc, versions, consumed, instVars, appVars>>

\* one turn of the read loop
ReadChunk(i) ==
    /\ i \in 1..Len(workers)
    /\ workers[i].pc = "read"
    /\ \/ Fail(i, "io")
       \/ /\ workers[i].remaining = 0
          /\ workers' = [workers EXCEPT ![i].pc = "extract"]
          /\ UNCHANGED <<chans, sent>>
       \/ /\ workers[i].remaining > 0
          /\ \E n \in ReadSizes(workers[i].remaining) :
               \/ Fail(i, "io")
               \/ LET downloaded == workers[i].downloaded + n
                  IN  /\ workers' = [workers EXCEPT ![i].downloaded = downloaded,
                                                    ![i].remaining = @ - n]
                      /\ IF workers[i].total > 0
                         THEN Send(i, <<progress_event(workers[i].downloaded, n,
                                                       workers[i].total)>>)
                         ELSE UNCHANGED <<chans, sent>>
    /\ UNCHANGED <<view, ui_pc, versions, consumed, disk, instVars, appVars>>

\* create_dir_all(install_dir), File::open, uncompress_archive, send(Finished)
Extract(i) ==
    /\ i \in 1..Len(workers)
    /\ workers[i].pc = "extract"
    /\ \/ Fail(i, "io") /\ UNCHANGED disk
       \/ /\ Fail(i, "archive")
          /\ disk' = [disk EXCEPT ![workers[i].ver] = @ \cup {InstallDir}]
       \/ \E layout \in Layouts :
            /\ workers' = [workers EXCEPT ![i] = Ended(@)]
            /\ disk' = [disk EXCEPT ![workers[i].ver] = @ \cup {InstallDir} \cup layout]
            /\ Send(i, <<Finished>>)
    /\ UNCHANGED <<view, ui_pc, versions, consumed, instVars, appVars>>

\* The download supervisor and its workers, with the Versions page on screen
\* (frames are not forced, so any number of worker steps may pass between polls).
NextDownload ==
    \/ MenuClick("Versions")
    \/ VersionsFrame
    \/ RefreshClick
    \/ \E i \in 1..2 : DownloadClick(i)
    \/ \E res \in {FetchOk(CatalogStable), FetchErr} : FetchReturn(res)
    \/ \E i \in 1..MaxTasks : HttpGet(i)
    \/ \E i \in 1..MaxTasks : CreateArchive(i)
    \/ \E i \in 1..MaxTasks : ReadChunk(i)
    \/ \E i \in 1..MaxTasks : Extract(i)

SpecDownload == Init /\ [][NextDownload]_vars

\* a step of a worker thread
WorkerStep == \E i \in 1..MaxTasks : HttpGet(i) \/ CreateArchive(i) \/ ReadChunk(i) \/ Extract(i)

\* The life of the tasks with what the scheduling gives: a worker thread that can
\* take its next step takes it (every I/O call returns), the blocking request of
\* fetch_versions returns, and the Versions page keeps being redrawn (the 10 ms
\* ticker of maybe_schedule_ticker while a task is in progress). The catalog is
\* fetched when the page is opened and the downloads are started from its first row.
FetchAnswer == \E res \in {FetchOk(CatalogStable), FetchErr} : FetchReturn(res)

NextLive ==
    \/ MenuClick("Versions")
    \/ VersionsFrame
    \/ DownloadClick(1)
    \/ FetchAnswer
    \/ WorkerStep

\* a frame of the Versions page that has something to receive
PollingFrame == RxQueue # <<>> /\ VersionsFrame

SpecDownloadFair ==
    /\ Init /\ [][NextLive]_vars
    /\ WF_vars(WorkerStep)
    /\ WF_vars(FetchAnswer)
    /\ WF_vars(PollingFrame)

(*----------------------- the foreground: Instances -----------------------*)
\* InstancesPage::installed_versions: the versions that have an install directory
\* (as a set: the order of the combo box does not reach the state)
installed_versions(d) == {v \in DOMAIN d : InstallDir \in d[v]}

\* InstancesPage::save_instances: the file after the write, which may fail unnoticed
save_instances(page, file, write_ok) ==
    IF write_ok THEN Some(page.instances) ELSE file

\* Vec::remove(idx)
Remove(list, idx) == SubSeq(list, 1, idx - 1) \o SubSeq(list, idx + 1, Len(list))

\* remove_instance without the return after a failed remove_dir_all
remove_instance_no_return(page, dirs, file, idx, rm_ok, write_ok) ==
    LET after == [page EXCEPT !.instances = Remove(@, idx)]
    IN  [page |-> [after EXCEPT !.status_msg = Some(MsgDeleted)],
         folders |-> IF rm_ok THEN dirs \ {page.instances[idx].name} ELSE dirs,
         saved |-> save_instances(after, file, write_ok)]

\* InstancesPage::remove_instance(idx), idx counted from 1; rm_ok and write_ok are
\* the outcomes of fs::remove_dir_all and of the write of save_instances
remove_instance(page, dirs, file, idx, rm_ok, write_ok) ==
    IF idx \in 1..Len(page.instances) /\ ~rm_ok
    THEN [page |-> [page EXCEPT !.status_msg =
                       Some(MsgDeleteError(IF page.instances[idx].name \in dirs
                                           THEN "permission denied"
                                           ELSE "not found"))],
          folders |-> dirs, saved |-> file]
    ELSE LET after == [page EXCEPT !.instances = Remove(@, idx)]
         IN  [page |-> [after EXCEPT !.status_msg = Some(MsgDeleted)],
              folders |-> dirs \ {page.instances[idx].name},
              saved |-> save_instances(after, file, write_ok)]

\* InstancesPage::create_instance; mkdir_ok and write_ok are the outcomes of
\* fs::create_dir_all (ignored by the code) and of the write of save_instances
create_instance(page, dirs, file, mkdir_ok, write_ok) ==
    LET after == [page EXCEPT !.instances =
                     Append(@, [name |-> page.new_name, version |-> page.new_version])]
    IN  [page |-> after,
         folders |-> IF mkdir_ok THEN dirs \cup {page.new_name} ELSE dirs,
         saved |-> save_instances(after, file, write_ok)]

\* a frame of the Instances page in which the bin button of row idx is clicked,
\* with the outcomes of remove_dir_all and of the write of instances.json
DeleteClickWith(idx, rm_ok, write_ok) ==
    /\ view = "Instances" /\ ui_pc = "idle"
    /\ idx \in 1..Len(instances.instances)
    \* remove_dir_all cannot succeed on a folder that does not exist
    /\ rm_ok => instances.instances[idx].name \in folders
    /\ LET r == remove_instance(instances, folders, saved, idx, rm_ok, write_ok)
       IN  /\ instances' = r.page
           /\ folders' = r.folders
           /\ saved' = r.saved
    /\ UNCHANGED <<view, ui_pc, versions, dlVars, disk, appVars>>

DeleteClick(idx) ==
    \E rm_ok \in BOOLEAN, write_ok \in BOOLEAN : DeleteClickWith(idx, rm_ok, write_ok)

\* "New instance..." is clicked
NewInstanceClick ==
    /\ view = "Instances" /\ ui_pc = "idle"
    /\ instances' = [instances EXCEPT !.new_name = "", !.new_version = <<>>,
                                      !.show_modal = TRUE]
    /\ UNCHANGED <<view, ui_pc, versions, dlVars, disk, folders, saved, appVars>>

\* the name field of the modal is edited
EditName(name) ==
    /\ view = "Instances" /\ ui_pc = "idle"
    /\ instances.show_modal
    /\ instances' = [instances EXCEPT !.new_name = name]
    /\ UNCHANGED <<view, ui_pc, versions, dlVars, disk, folders, saved, appVars>>

\* a version is picked in the combo box of the modal
SelectVersion(v) ==
    /\ view = "Instances" /\ ui_pc = "idle"
    /\ instances.show_modal
    /\ v \in installed_versions(disk)
    /\ instances' = [instances EXCEPT !.new_version = v]
    /\ UNCHANGED <<view, ui_pc, versions, dlVars, disk, folders, saved, appVars>>

\* "Create" is clicked, with the outcomes of create_dir_all and of the write
CreateClickWith(mkdir_ok, write_ok) ==
    /\ view = "Instances" /\ ui_pc = "idle"
    /\ instances.show_modal
    /\ Len(instances.instances) < MaxInstances
    /\ IF instances.new_name # "" /\ instances.new_version # <<>>
       THEN LET r == create_instance(instances, folders, saved, mkdir_ok, write_ok)
            IN  /\ instances' = [r.page EXCEPT !.show_modal = FALSE]
                /\ folders' = r.folders
                /\ saved' = r.saved
       ELSE UNCHANGED <<instances, folders, saved>>
    /\ UNCHANGED <<view, ui_pc, versions, dlVars, disk, appVars>>

CreateClick ==
    \E mkdir_ok \in BOOLEAN, write_ok \in BOOLEAN : CreateClickWith(mkdir_ok, write_ok)

\* "Cancel" is clicked
CancelClick ==
    /\ view = "Instances" /\ ui_pc = "idle"
    /\ instances.show_modal
    /\ instances' = [instances EXCEPT !.show_modal = FALSE]
    /\ UNCHANGED <<view, ui_pc, versions, dlVars, disk, folders, saved, appVars>>

\* The instance registry, on a data directory in which 1.20 is installed.
InitInstances ==
    /\ view = "Home"
    /\ ui_pc = "idle"
    /\ versions = VersionPageDefault
    /\ workers = <<>> /\ chans = <<>> /\ sent = <<>> /\ consumed = <<>>
    /\ disk = InstalledDisk
    /\ folders = {}
    /\ saved = None
    /\ instances = InstancesPageDefault(saved)
    /\ selected_idx = None
    /\ modes = [v \in VersionNames |-> {}]
    /\ procs = {}
    /\ mods = ModsPageDefault
    /\ mods_workers = <<>>
    /\ mods_chans = <<>>
    /\ scroll = 0

NextInstances ==
    \/ \E v \in {"Home", "Instances"} : MenuClick(v)
    \/ \E idx \in 1..MaxInstances : DeleteClick(idx)
    \/ NewInstanceClick
    \/ \E name \in InstanceNames \cup {""} : EditName(name)
    \/ \E v \in VersionNames : SelectVersion(v)
    \/ CreateClick
    \/ CancelClick

SpecInstances == InitInstances /\ [][NextInstances]_vars

\* The instance registry when every folder creation succeeds (removals and the
\* writes of instances.json may still fail).
NextRegistry ==
    \/ MenuClick("Instances")
    \/ \E idx \in 1..MaxInstances : DeleteClick(idx)
    \/ NewInstanceClick
    \/ \E name \in InstanceNames : EditName(name)
    \/ \E v \in VersionNames : SelectVersion(v)
    \/ \E write_ok \in BOOLEAN : CreateClickWith(TRUE, write_ok)

SpecRegistry == InitInstances /\ [][NextRegistry]_vars

(*------------------------- the launcher: main.rs -------------------------*)
MsgNotFound(name)  == Msg("Executable not found for", <<>>, name, 0)
MsgLaunched(name)  == Msg("Launched", <<>>, name, 0)
MsgLaunchError(e)  == Msg("Launch error", <<>>, e, 0)

\* install_dir(version).join("vintagestory"), below versions/<ver>/
LaunchRoot == "install/vintagestory"
\* let candidates = [root.join("Vintagestory"), root.join("run.sh"), ...]
Candidates == << "install/vintagestory/Vintagestory",
                 "install/vintagestory/run.sh",
                 "install/vintagestory/Vintagestory.exe" >>

\* an archive that unpacks to the launch script and the Windows binary only
LayoutScript == {"install/vintagestory", "install/vintagestory/run.sh",
                 "install/vintagestory/Vintagestory.exe"}

\* find that takes the last candidate that exists
find_exists_last(cands, paths) ==
    LET hits == {k \in 1..Len(cands) : cands[k] \in paths}
    IN  IF hits = {} THEN None
        ELSE Some(cands[CHOOSE k \in hits : \A j \in hits : j <= k])

\* candidates.iter().find(|p| p.exists())
find_exists(cands, paths) ==
    LET hits == {k \in 1..Len(cands) : cands[k] \in paths}
    IN  IF hits = {} THEN None
        ELSE Some(cands[CHOOSE k \in hits : \A j \in hits : k <= j])

\* VsLauncherApp::launch_instance(idx), idx counted from 1, on the registry page,
\* the disk, the execute bits and the children so far; chmod_ok and spawn_ok are
\* the outcomes of fs::set_permissions (ignored by the code) and of spawn()
launch_instance(page, d, md, children, idx, chmod_ok, spawn_ok) ==
    IF idx \notin 1..Len(page.instances)
    THEN [page |-> page, modes |-> md, procs |-> children]
    ELSE LET inst == page.instances[idx]
             bin  == find_exists(Candidates, d[inst.version])
         IN  IF bin = None
             THEN [page |-> [page EXCEPT !.status_msg = Some(MsgNotFound(inst.name))],
                   modes |-> md, procs |-> children]
             ELSE [page  |-> [page EXCEPT !.status_msg =
                                 IF spawn_ok THEN Some(MsgLaunched(inst.name))
                                 ELSE Some(MsgLaunchError("spawn"))],
                   modes |-> IF bin[1] \notin md[inst.version] /\ chmod_ok
                             THEN [md EXCEPT ![inst.version] = @ \cup {bin[1]}]
                             ELSE md,
                   procs |-> IF spawn_ok
                             THEN children \cup {[ver |-> inst.version, bin |-> bin[1]]}
                             ELSE children]

\* the state after a call of launch_instance(idx) in a frame
LaunchStep(idx) ==
    \E chmod_ok \in BOOLEAN, spawn_ok \in BOOLEAN :
      \* bash cannot be started in a directory that does not exist
      /\ (spawn_ok /\ idx \in 1..Len(instances.instances))
            => LaunchRoot \in disk[instances.instances[idx].version]
      /\ LET r == launch_instance(instances, disk, modes, procs, idx, chmod_ok, spawn_ok)
         IN  /\ instances' = r.page
             /\ modes' = r.modes
             /\ procs' = r.procs

\* a frame of the Instances page in which the play button of row idx is clicked:
\* ui returns InstanceCmd::Play(idx), update calls launch_instance(idx)
RowPlayClick(idx) ==
    /\ view = "Instances" /\ ui_pc = "idle"
    /\ idx \in 1..Len(instances.instances)
    /\ LaunchStep(idx)
    /\ UNCHANGED <<view, ui_pc, versions, dlVars, disk, folders, saved, selected_idx, modsVars>>

\* a frame in which a row of the footer's combo box is picked
FooterSelect(idx) ==
    /\ ui_pc = "idle"
    /\ idx \in 1..Len(instances.instances)
    /\ selected_idx' = Some(idx)
    /\ UNCHANGED <<view, ui_pc, versions, dlVars, disk, instVars, modes, procs, modsVars>>

\* a frame in which "Play" of the footer is clicked (enabled iff selected_idx.is_some())
FooterPlay ==
    /\ ui_pc = "idle"
    /\ selected_idx # None
    /\ LaunchStep(selected_idx[1])
    /\ UNCHANGED <<view, ui_pc, versions, dlVars, disk, folders, saved, selected_idx, modsVars>>

\* The launcher and the registry, on a data directory with three installs:
\* 1.20 complete, 1.21 without the Linux binary, 1.21-rc.1 without any executable.
LaunchDisk ==
    [NoDisk EXCEPT ![Str120] = {ArchiveFile, InstallDir} \cup LayoutLinux,
                   ![Str121] = {ArchiveFile, InstallDir} \cup LayoutScript,
                   ![Str121rc] = {ArchiveFile, InstallDir}]

InitLaunch ==
    /\ view = "Home"
    /\ ui_pc = "idle"
    /\ versions = VersionPageDefault
    /\ workers = <<>> /\ chans = <<>> /\ sent = <<>> /\ consumed = <<>>
    /\ disk = LaunchDisk
    /\ folders = {}
    /\ saved = None
    /\ instances = InstancesPageDefault(saved)
    /\ selected_idx = None
    \* the Linux binary is unpacked executable, the script is not
    /\ modes = [v \in VersionNames |-> {c \in disk[v] : c = Candidates[1]}]
    /\ procs = {}
    /\ mods = ModsPageDefault
    /\ mods_workers = <<>>
    /\ mods_chans = <<>>
    /\ scroll = 0

\* (the folder and registry writes succeed here: their failures are the
\* subject of SpecInstances)
NextLaunch ==
    \/ MenuClick("Instances")
    \/ \E idx \in 1..MaxInstances : DeleteClickWith(idx, TRUE, TRUE)
    \/ NewInstanceClick
    \/ EditName("A")
    \/ \E v \in VersionNames : SelectVersion(v)
    \/ CreateClickWith(TRUE, TRUE)
    \/ \E idx \in 1..MaxInstances : RowPlayClick(idx)
    \/ \E idx \in 1..MaxInstances : FooterSelect(idx)
    \/ FooterPlay

SpecLaunch == InitLaunch /\ [][NextLaunch]_vars

(*------------------ the installed-check and the launcher -----------------*)
\* the paths below versions/<ver>/ that is_installed and launch_instance probe
ProbedPaths ==
    {"install/vintagestory", "install/vintagestory.exe",
     "install/vintagestory/vintagestory"} \cup {Candidates[k] : k \in 1..Len(Candidates)}

\* the states of an install directory, as far as the two probes can tell them
\* apart: a file below install/vintagestory needs that directory
InstallStates ==
    {s \in SUBSET ProbedPaths :
       (s \ {LaunchRoot, "install/vintagestory.exe"}) # {} => LaunchRoot \in s}

\* The registry and the launcher on a data directory with one install of 1.20,
\* in any state.
InitInstalled ==
    /\ view = "Home"
    /\ ui_pc = "idle"
    /\ versions = VersionPageDefault
    /\ workers = <<>> /\ chans = <<>> /\ sent = <<>> /\ consumed = <<>>
    /\ disk \in {[NoDisk EXCEPT ![Str120] = {ArchiveFile, InstallDir} \cup s] :
                   s \in InstallStates}
    /\ folders = {}
    /\ saved = None
    /\ instances = InstancesPageDefault(saved)
    /\ selected_idx = None
    /\ modes = [v \in VersionNames |-> {c \in disk[v] : c = Candidates[1]}]
    /\ procs = {}
    /\ mods = ModsPageDefault
    /\ mods_workers = <<>>
    /\ mods_chans = <<>>
    /\ scroll = 0

NextInstalled ==
    \/ MenuClick("Instances")
    \/ NewInstanceClick
    \/ EditName("A")
    \/ \E v \in VersionNames : SelectVersion(v)
    \/ CreateClickWith(TRUE, TRUE)
    \/ \E idx \in 1..MaxInstances : RowPlayClick(idx)

SpecInstalled == InitInstalled /\ [][NextInstalled]_vars

(*--------------------- the Mods page and its workers ---------------------*)
\* the cells a scroll can bring to the bottom of the view: the first, the ones
\* around four fifths of the list, the last
ScrollStops(n) ==
    {i \in {0, (n * 4) \div 5 - 1, (n * 4) \div 5, (n * 4) \div 5 + 1, n - 1} :
       0 <= i /\ i < n}

\* a frame of the Mods page, after the scroll input of the frame
ModsFrame ==
    /\ view = "Mods"
    /\ ModsStep
    /\ scroll' \in {scroll} \cup ScrollStops(Len(mods.mods))
    /\ UNCHANGED <<view, ui_pc, versions, dlVars, disk, instVars, launchVars>>

\* the thread of start_fetch: tx.send(fetch_page(page, size)), dropped if the
\* receiver is gone
ModsFetch(i) ==
    /\ i \in 1..Len(mods_workers)
    /\ mods_workers[i].pc = "fetch"
    /\ mods_workers' = [mods_workers EXCEPT ![i].pc = "end"]
    /\ \E res \in {FetchFailed} \cup
                  {fetch_page(mods_workers[i].page, mods_workers[i].size, n) :
                     n \in ServerSizes} :
         mods_chans' = IF mods.rx = Some(i)
                       THEN [mods_chans EXCEPT ![i] = Append(@, res)]
                       ELSE mods_chans
    /\ UNCHANGED <<view, ui_pc, versions, dlVars, disk, instVars, launchVars, mods, scroll>>

NextMods ==
    \/ MenuClick("Mods")
    \/ ModsFrame
    \/ \E i \in 1..MaxFetches : ModsFetch(i)

SpecMods == Init /\ [][NextMods]_vars

\* the threads that have returned and the channels whose receiver was dropped no
\* longer exist: once the page holds no receiver, all of them are of that kind
Forget ==
    /\ mods.rx = None
    /\ mods_workers # <<>>
    /\ \A i \in 1..Len(mods_workers) : mods_workers[i].pc = "end"
    /\ mods_workers' = <<>>
    /\ mods_chans' = <<>>
    /\ UNCHANGED <<view, ui_pc, versions, dlVars, disk, instVars, launchVars, mods, scroll>>

\* a step of a fetch thread
ModsFetchStep == \E i \in 1..MaxFetches : ModsFetch(i)

\* The Mods page with what the scheduling gives: the thread of start_fetch runs
\* and its request returns. Frames are drawn when there is input; none is forced.
NextModsLive ==
    \/ MenuClick("Mods")
    \/ ModsFrame
    \/ ModsFetchStep
    \/ Forget

SpecModsFair ==
    Init /\ [][NextModsLive]_vars /\ WF_vars(ModsFetchStep) /\ WF_vars(Forget)

(*------------------------- the sort of the list --------------------------*)
\* The Versions page on catalogs of up to MaxCatalog entries drawn from names
\* with equal keys (1.21, 1.21.0), a pre-release and an unparsable name.
SortNames == {Str120, Str121, Str1210, Str121rc, StrBad}
SortCatalogs ==
    UNION {[1..n -> {[name |-> <<"v">> \o nm, type |-> None] : nm \in SortNames}] :
             n \in 1..MaxCatalog}

NextSort ==
    \/ MenuClick("Versions")
    \/ RefreshClick
    \/ SortClick
    \/ \E c \in SortCatalogs : FetchReturn(FetchOk(c))

SpecSort == Init /\ [][NextSort]_vars

(*------------------------ the tasks and the views ------------------------*)
\* The download supervisor with the top menu: the user may leave the Versions
\* page while a task is in progress.
NextViews ==
    \/ \E v \in Views : MenuClick(v)
    \/ VersionsFrame
    \/ DownloadClick(1)
    \/ FetchAnswer
    \/ WorkerStep

SpecViews == Init /\ [][NextViews]_vars

(*------------------------------ the whole app ----------------------------*)
Next ==
    \/ \E v \in Views : MenuClick(v)
    \/ VersionsFrame
    \/ RefreshClick
    \/ SortClick
    \/ \E i \in 1..2 : DownloadClick(i)
    \/ \E res \in FetchResults : FetchReturn(res)
    \/ \E i \in 1..MaxTasks : HttpGet(i)
    \/ \E i \in 1..MaxTasks : CreateArchive(i)
    \/ \E i \in 1..MaxTasks : ReadChunk(i)
    \/ \E i \in 1..MaxTasks : Extract(i)
    \/ \E idx \in 1..MaxInstances : DeleteClick(idx)
    \/ NewInstanceClick
    \/ \E name \in InstanceNames \cup {""} : EditName(name)
    \/ \E v \in VersionNames : SelectVersion(v)
    \/ CreateClick
    \/ CancelClick
    \/ \E idx \in 1..MaxInstances : RowPlayClick(idx)
    \/ \E idx \in 1..MaxInstances : FooterSelect(idx)
    \/ FooterPlay
    \/ ModsFrame
    \/ \E i \in 1..MaxFetches : ModsFetch(i)

Spec == Init /\ [][Next]_vars

(*=============================== claims ==================================*)
Last(q) == q[Len(q)]
Tasks == 1..Len(workers)
Running(i) == workers[i].pc # "end"
HasTerminal(log) == \E k \in 1..Len(log) : IsTerminal(log[k])
\* the version records a click on "Download" can carry
ListedVersions == {versions.versions[k] : k \in 1..Len(versions.versions)}
\* start(v) is accepted on the page
Accepts(page) == \A v \in ListedVersions : spawn_download(page, v, Len(workers) + 1).spawned
NothingToDrain == versions.task.state # "InProgress" \/ RxQueue = <<>>

\* C1: a click on "Download" in a frame whose poll leaves the task InProgress is
\* rejected: the status becomes "A download is already running", the task (its
\* version and its receiver), the fraction left by the poll, the workers and the
\* channels stay as they are.
C1_StartWhileRunningRejected ==
    [][\A i \in 1..2 :
         (DownloadClick(i) /\ Polled.page.task.state = "InProgress") =>
            /\ versions'.status_msg = Some(MsgAlreadyRunning)
            /\ versions'.task = versions.task
            /\ versions'.progress_frac = Polled.page.progress_frac
            /\ workers' = workers
            /\ Len(chans') = Len(chans)
            /\ sent' = sent]_vars

\* a start was rejected while task 1 was running for another version than the
\* one on the first row
C1_Witness ==
    /\ versions.status_msg = Some(MsgAlreadyRunning)
    /\ versions.task.state = "InProgress"
    /\ Len(workers) = 1
    /\ Len(versions.versions) = 2
    /\ \E k \in 1..2 : versions.versions[k].ver # versions.task.ver

\* C2: single flight: every worker that was followed by a later spawn had ended,
\* and its terminal event had been received, before the later one was spawned;
\* so at most one worker is between its spawn and its terminal event.
C2_SingleFlight ==
    /\ \A i \in Tasks : i < Len(workers) =>
          ~Running(i) /\ HasTerminal(consumed[i]) /\ chans[i] = <<>>
    /\ Cardinality({i \in Tasks : Running(i)}) <= 1

\* a second worker is running after the first has ended
C2_Witness ==
    /\ Len(workers) = 2
    /\ Running(2)
    /\ workers[2].pc = "read"

\* C3: the poll of a frame that finds a terminal event of the running task in the
\* queue leaves InProgress, clears the fraction and sets the status to
\* "v<ver> downloaded & extracted" (Finished) or "Error: <e>" (Error); start() is
\* accepted on the page it returns.
C3_TerminalEventEndsTask ==
    (versions.task.state = "InProgress" /\ HasTerminal(RxQueue)) =>
        LET evt == Last(RxQueue)
            p   == Polled.page
        IN  /\ p.task.state # "InProgress"
            /\ p.progress_frac = None
            /\ evt.type = "Finished" => p.status_msg = Some(MsgExtracted(versions.task.ver))
            /\ evt.type = "Error" => p.status_msg = Some(MsgError(evt.err))
            /\ Accepts(p)
            /\ Polled.log = RxQueue

\* one task was ended by an Error event and a later one by Finished after
\* Progress events, and the page shows the result of that poll
C3_Witness ==
    /\ Len(workers) = 2
    /\ Last(consumed[1]).type = "Error"
    /\ Len(consumed[2]) >= 2
    /\ Last(consumed[2]).type = "Finished"
    /\ versions.task.state = "Done"
    /\ versions.progress_frac = None
    /\ versions.status_msg = Some(MsgExtracted(workers[2].ver))

\* C4 as stated: a Done left by the poll that drained Finished is gone after the
\* next poll, the supervisor being back in the state None it started in.
C4_DoneGoneAfterNextPoll ==
    versions.task.state = "Done" => Polled.page.task.state = "None"

\* C4, amended: the task is None, InProgress or Done; it is Done exactly after a
\* task that ended with Finished and None after one that ended with Error (or
\* before the first start); polls leave Done as it is; Done and None both accept
\* start().
C4_DonePersistsUntilStart ==
    /\ versions.task.state \in {"None", "InProgress", "Done"}
    /\ versions.task.state = "Done" =>
          /\ workers # <<>>
          /\ consumed[Len(workers)] # <<>>
          /\ Last(consumed[Len(workers)]).type = "Finished"
          /\ Polled.page = versions
          /\ Accepts(versions)
    /\ versions.task.state = "None" =>
          /\ workers = <<>> \/ (/\ consumed[Len(workers)] # <<>>
                                /\ Last(consumed[Len(workers)]).type = "Error")
          /\ Polled.page = versions
          /\ Accepts(versions)
    /\ versions.task.state = "InProgress" =>
          /\ versions.task.rx = Len(workers)
          /\ ~HasTerminal(consumed[Len(workers)])

\* the task is still Done after a later frame has polled and refreshed the list
C4_Witness ==
    /\ versions.task.state = "Done"
    /\ versions.status_msg = Some(MsgFound(2))
    /\ ui_pc = "idle"

\* C5: a poll with no task in progress, or with an empty queue, changes nothing
\* of the page (task, fraction, status, version list) and receives nothing; a
\* frame of the Versions page that is only this poll is a stuttering step.
C5_EmptyPollIsNoOp ==
    NothingToDrain => Polled.page = versions /\ Polled.log = <<>>

\* an empty poll is due while a task is running with progress on screen
C5_Witness ==
    /\ view = "Versions" /\ ui_pc = "idle"
    /\ versions.task.state = "InProgress"
    /\ RxQueue = <<>>
    /\ versions.progress_frac # None
    /\ versions.progress_frac # Some(Frac(0, 1))
    /\ ENABLED VersionsFrame

\* C6: of every task, what was received followed by what is still queued is what
\* the worker sent (first in, first out, nothing lost); only the last event sent
\* can be a terminal one; a worker that has ended has sent one and a worker that
\* runs has sent none; and once a later task was started the channel of an
\* earlier one is empty.
C6_FifoOneTerminal ==
    \A i \in Tasks :
        /\ consumed[i] \o chans[i] = sent[i]
        /\ \A k \in 1..(Len(sent[i]) - 1) : sent[i][k].type = "Progress"
        /\ ~Running(i) => sent[i] # <<>> /\ IsTerminal(Last(sent[i]))
        /\ Running(i) => ~HasTerminal(sent[i])
        /\ i < Len(workers) => chans[i] = <<>> /\ Len(consumed[i]) = 1

\* the second task's Progress events and its terminal event were received, some
\* of them in one poll, after the first task was drained
C6_Witness ==
    /\ Len(workers) = 2
    /\ consumed[1] # <<>>
    /\ Len(consumed[2]) >= 3
    /\ IsTerminal(Last(consumed[2]))
    /\ consumed[2][1].type = "Progress"

C8_ForegroundNeverInRequest ==
    ui_pc = "idle"

\* C9: a click on the bin button whose remove_dir_all fails (the folder is still
\* there, or was never there) leaves the list, the file and the folders as they
\* were and shows a delete error; the entry goes only when the folder went.
C9_FailedDeleteKeepsRegistry ==
    [][\A idx \in 1..Len(instances.instances) :
         DeleteClick(idx) =>
            LET name == instances.instances[idx].name
                removed == name \in folders /\ name \notin folders'
            IN  IF removed
                THEN /\ instances'.instances = Remove(instances.instances, idx)
                     /\ instances'.status_msg = Some(MsgDeleted)
                ELSE /\ instances'.instances = instances.instances
                     /\ saved' = saved
                     /\ folders' = folders
                     /\ instances'.status_msg # None
                     /\ instances'.status_msg[1].kind = "Delete error"]_vars

\* a delete failed on a folder that exists: the instance is listed and persisted
C9_Witness ==
    /\ instances.status_msg = Some(MsgDeleteError("permission denied"))
    /\ Len(instances.instances) = 2
    /\ saved = Some(instances.instances)
    /\ \A k \in 1..2 : instances.instances[k].name \in folders

\* C10: no two entries of the registry have the same name.
C10_NamesUnique ==
    \A i, j \in 1..Len(instances.instances) :
        i # j => instances.instances[i].name # instances.instances[j].name

\* the launch requests a click can make in this state: the play button of a row
\* of the Instances page, "Play" of the footer with the selected index
LaunchRequests ==
    (IF view = "Instances" THEN 1..Len(instances.instances) ELSE {})
    \cup (IF selected_idx # None THEN {selected_idx[1]} ELSE {})
LaunchStatuses ==
    {Some(MsgLaunchError("spawn"))}
    \cup {Some(MsgLaunched(n)) : n \in InstanceNames}
    \cup {Some(MsgNotFound(n)) : n \in InstanceNames}

\* C11: every launch request that can be made, after any creates and deletes,
\* ends with the instance status set to Launched, NotFound or SpawnError,
\* whatever set_permissions and spawn answer.
C11_LaunchAlwaysReports ==
    ui_pc = "idle" =>
      \A idx \in LaunchRequests : \A chmod_ok \in BOOLEAN, spawn_ok \in BOOLEAN :
        launch_instance(instances, disk, modes, procs, idx, chmod_ok, spawn_ok)
            .page.status_msg \in LaunchStatuses

\* launch_instance(idx) is called in this step
LaunchRequest(idx) == RowPlayClick(idx) \/ (FooterPlay /\ selected_idx = Some(idx))
\* the candidate a launch of version v must use: the first in the fixed order
\* Vintagestory, run.sh, Vintagestory.exe that exists below install/vintagestory
FirstCandidate(v) ==
    IF "install/vintagestory/Vintagestory" \in disk[v]
    THEN "install/vintagestory/Vintagestory"
    ELSE IF "install/vintagestory/run.sh" \in disk[v]
    THEN "install/vintagestory/run.sh"
    ELSE "install/vintagestory/Vintagestory.exe"
NoCandidate(v) ==
    /\ "install/vintagestory/Vintagestory" \notin disk[v]
    /\ "install/vintagestory/run.sh" \notin disk[v]
    /\ "install/vintagestory/Vintagestory.exe" \notin disk[v]

\* C12: a launch of a registered instance reports "Executable not found" if and
\* only if none of Vintagestory, run.sh, Vintagestory.exe exists below
\* install/vintagestory of its version, and then spawns nothing and changes no
\* permission; otherwise the only process it may spawn and the only file whose
\* mode it may change is the first of the three that exists, and "Launched" is
\* reported only with that process spawned.
C12_FirstExistingCandidate ==
    [][\A idx \in 1..Len(instances.instances) :
         LaunchRequest(idx) =>
           LET inst == instances.instances[idx]
               v    == inst.version
           IN  /\ (instances'.status_msg = Some(MsgNotFound(inst.name))) <=> NoCandidate(v)
               /\ NoCandidate(v) => procs' = procs /\ modes' = modes
               /\ ~NoCandidate(v) =>
                    /\ procs' \subseteq procs \cup {[ver |-> v, bin |-> FirstCandidate(v)]}
                    /\ \A w \in VersionNames :
                         modes'[w] \subseteq
                           modes[w] \cup (IF w = v THEN {FirstCandidate(v)} ELSE {})
                    /\ instances'.status_msg = Some(MsgLaunched(inst.name))
                         => [ver |-> v, bin |-> FirstCandidate(v)] \in procs'
      ]_vars
\* the script of 1.21 was launched although Vintagestory.exe exists as well, and
\* it was made executable on the way; a launch of 1.21-rc.1 reported NotFound
C12_Witness ==
    /\ [ver |-> Str121, bin |-> "install/vintagestory/run.sh"] \in procs
    /\ "install/vintagestory/run.sh" \in modes[Str121]
    /\ \E n \in InstanceNames : instances.status_msg = Some(MsgNotFound(n))

\* the fetch workers that have not sent their result yet
InFlight == {i \in 1..Len(mods_workers) : mods_workers[i].pc = "fetch"}
FetchStarted == Len(mods_workers') = Len(mods_workers) + 1

\* C13: at most one mod-page fetch worker is in flight, and it is the one whose
\* receiver the page holds; the loading flag is true exactly while a receiver is
\* held; a fetch is started only with the loading flag false (as the poll of the
\* frame leaves it).
C13_SingleFetch ==
    /\ [](/\ Cardinality(InFlight) <= 1
          /\ mods.loading <=> mods.rx # None
          /\ \A i \in InFlight : mods.loading /\ mods.rx = Some(i))
    /\ [][FetchStarted => ~mods_poll(mods, ModsQueue).loading]_vars
\* the second fetch is in flight after the first one delivered page 1
C13_Witness ==
    /\ Len(mods_workers) >= 2
    /\ InFlight = {2}
    /\ Len(mods.mods) = FirstPageSize
    /\ mods.loading

\* C14: a frame of the Mods page starts a next-page fetch exactly when the last
\* cell in view is at or past 80% of the loaded list while, after the poll, no
\* fetch is in flight and next_page <= total_pages; the fetch is for page
\* next_page with 24 mods.
C14_FetchAheadOnScroll ==
    [][(ModsFrame \/ MenuClick("Mods")) =>
         LET p == mods_poll(mods, ModsQueue)
             started == FetchStarted /\ mods_workers'[Len(mods_workers')].size = NextPageSize
         IN  /\ started <=> /\ p.mods # <<>>
                            /\ scroll' * 5 >= Len(p.mods) * 4
                            /\ ~p.loading
                            /\ p.next_page <= p.total_pages
             /\ started => mods_workers'[Len(mods_workers')].page = p.next_page
      ]_vars

Key(k) == parse_semver(versions.versions[k].ver)
KeyAfter(k) == parse_semver(versions'.versions[k].ver)

\* C15: in the sorted list no entry without a key stands before an entry with a
\* key, whatever sort_ascending is.
C15_UnparsableLast ==
    \A i, j \in 1..Len(versions.versions) :
       i < j => ~(Key(i) = None /\ Key(j) # None)

\* C15 (amended): entries without a key are at the low end of the order: behind
\* all entries with a key when the list is descending, in front of all of them
\* when it is ascending.
C15_UnparsableAtLowEnd ==
    \A i, j \in 1..Len(versions.versions) :
       i < j => IF versions.sort_ascending
                THEN ~(Key(i) # None /\ Key(j) = None)
                ELSE ~(Key(i) = None /\ Key(j) # None)
\* an ascending list that starts with the unparsable name and goes on with a version
C15_Witness ==
    /\ versions.sort_ascending
    /\ Len(versions.versions) >= 2
    /\ versions.versions[1].ver = StrBad
    /\ Key(2) # None

RECURSIVE Reverse(_)
Reverse(q) == IF q = <<>> THEN <<>> ELSE Append(Reverse(Tail(q)), Head(q))
Parsable(e) == parse_semver(e.ver) # None

\* C16: a click on the sort toggle leaves the entries that have a key in exactly
\* the reverse of the order they had.
C16_ToggleReverses ==
    [][SortClick =>
         SelectSeq(versions'.versions, Parsable)
           = Reverse(SelectSeq(versions.versions, Parsable))]_vars

\* C16 (amended): after a click on the sort toggle the list is in the order of
\* the new direction (entries with different keys have changed sides), and the
\* entries of every group of equal keys stand in the same order as before.
C16_ToggleReversesDistinctKeys ==
    [][SortClick =>
         /\ versions'.sort_ascending = ~versions.sort_ascending
         /\ \A i, j \in 1..Len(versions'.versions) :
              i < j => IF versions'.sort_ascending
                       THEN CmpOption(KeyAfter(i), KeyAfter(j)) <= 0
                       ELSE CmpOption(KeyAfter(i), KeyAfter(j)) >= 0
         /\ \A k \in 1..Len(versions.versions) :
              SelectSeq(versions'.versions,
                        LAMBDA e : CmpOption(parse_semver(e.ver), Key(k)) = 0)
                = SelectSeq(versions.versions,
                            LAMBDA e : CmpOption(parse_semver(e.ver), Key(k)) = 0)
      ]_vars
\* toggled to ascending: 1.20 came to the front, 1.21 is still before 1.21.0
C16_Witness ==
    /\ versions.sort_ascending
    /\ [k \in 1..Len(versions.versions) |-> versions.versions[k].ver]
         = <<Str120, Str121, Str1210>>

\* C17: every started download eventually leaves InProgress: the task of every
\* receiver the page holds is eventually over (Done or None, or replaced by a
\* later task, which takes a start() accepted in between), given that worker
\* steps complete and the page keeps polling.
C17_DownloadEnds ==
    \A i \in 1..MaxTasks : RxAlive(i) ~> ~RxAlive(i)
\* a task was started and is over on the page, its worker gone
C17_Witness ==
    /\ Len(workers) >= 1
    /\ versions.task.state # "InProgress"
    /\ \A i \in Tasks : ~Running(i)
    /\ HasTerminal(consumed[1])

\* C18: every frame, whichever view it draws, drains the events of the task: a
\* frame that begins with a terminal event in the queue of the running task
\* ends with that task over.
C18_EveryFrameDrains ==
    [][((\E v \in Views : MenuClick(v)) \/ VersionsFrame \/ DownloadClick(1))
         /\ versions.task.state = "InProgress" /\ HasTerminal(RxQueue)
       => ~(versions'.task.state = "InProgress" /\ versions'.task.rx = versions.task.rx)
      ]_vars

\* the fractions the events of a log would put on screen
FractionsOf(log) ==
    {Some(Frac(log[k].num, log[k].den)) : k \in {n \in 1..Len(log) : log[n].type = "Progress"}}

\* C19: a task that is over cannot reach a later one: once the page no longer
\* holds the receiver of a task, nothing of that task is queued and its worker
\* has ended, so it sends nothing more; and what the page shows for the task in
\* progress (its fraction) comes from the start of this task or from an event
\* its own worker sent.
C19_EarlierTaskIsSilent ==
    /\ \A i \in Tasks : ~RxAlive(i) => chans[i] = <<>> /\ ~Running(i)
    /\ versions.task.state = "InProgress" =>
         LET j == versions.task.rx
         IN  /\ versions.task.ver = workers[j].ver
             /\ versions.progress_frac \in {Some(Frac(0, 1))} \cup FractionsOf(sent[j])
             /\ \A k \in 1..Len(consumed[j]) : consumed[j][k] = sent[j][k]
\* the second task shows a fraction of its own after the first one ended
C19_Witness ==
    /\ Len(workers) = 2
    /\ RxAlive(2)
    /\ HasTerminal(sent[1])
    /\ versions.progress_frac \in FractionsOf(sent[2])

\* the versions below whose directory the installed-check of a frame looks
ProbedBy(rows) == {rows[k].ver : k \in 1..Len(rows)}

\* C20: while the task of version V runs (from its start until its terminal
\* event is drained) no frame touches anything below versions/V: a frame of the
\* Versions page that leaves the task in progress draws no row whose
\* installed-check probes the directory of the version being downloaded.
C20_WorkerOwnsItsVersion ==
    [][(VersionsFrame \/ RefreshClick \/ \E i \in 1..2 : DownloadClick(i))
         /\ versions.task.state = "InProgress"
         /\ versions'.task = versions.task
       => versions.task.ver \notin ProbedBy(version_rows(versions', disk))
      ]_vars

\* a frame of the Versions page that enters fetch_versions and blocks in its request
FetchBegins == ui_pc = "idle" /\ ui_pc' = "fetch_versions"

\* the answers of the request that fail: a network error, an unexpected JSON shape
FetchFailures == {FetchErr, FetchShape}

\* C21: the catalog fetch does not mutate the version list unless it succeeds:
\* whenever a frame enters fetch_versions, the list the page holds once the
\* request has failed (with a network error or an unexpected JSON shape) is the
\* list it held before the fetch.
C21_FailedFetchKeepsList ==
    [][FetchBegins =>
         \A res \in FetchFailures :
            fetch_versions_end(versions', res).versions = versions.versions
      ]_vars

\* C22: the requests of the mods browser cover disjoint parts of the server's
\* list, so no mod (a place in the server's list) is twice in the accumulated list.
C22_NoModTwice ==
    \A i, j \in 1..Len(mods.mods) : mods.mods[i] = mods.mods[j] => i = j

\* C23: the progress fraction is present exactly while the task is InProgress;
\* it is 0.0 from the accepted start until the first event of the task is
\* received (polls that find nothing leave it alone).
C23_FractionIffInProgress ==
    /\ versions.progress_frac # None <=> versions.task.state = "InProgress"
    /\ (versions.task.state = "InProgress" /\ consumed[versions.task.rx] = <<>>)
          => versions.progress_frac = Some(Frac(0, 1))
\* a second task was started after the fraction of the first was cleared, and
\* the bar of the second has moved
C23_Witness ==
    /\ Len(workers) = 2
    /\ versions.task.state = "InProgress"
    /\ versions.task.rx = 2
    /\ consumed[2] # <<>>
    /\ versions.progress_frac # None
    /\ versions.progress_frac # Some(Frac(0, 1))

\* C24: whatever the install directory holds, a version that is_installed
\* reports as installed can be launched: launch_instance, called for an instance
\* pinned to it, finds an executable and does not report "Executable not found".
C24_InstalledCanLaunch ==
    \A idx \in 1..Len(instances.instances) :
       LET inst == instances.instances[idx]
       IN  is_installed(disk[inst.version]) =>
             \A chmod_ok \in BOOLEAN, spawn_ok \in BOOLEAN :
                launch_instance(instances, disk, modes, procs, idx, chmod_ok,
                                spawn_ok).page.status_msg
                  # Some(MsgNotFound(inst.name))

\* C25: as long as every folder creation succeeds, every instance of the registry
\* has its folder instances/<name> on disk (so that its removal can succeed).
C25_ListedHaveFolders ==
    \A k \in 1..Len(instances.instances) : instances.instances[k].name \in folders

\* C26: the mods browser becomes quiescent: from some point on no fetch is in
\* flight and no frame starts a new one.
C26_EventuallyQuiescent ==
    /\ <>[](InFlight = {})
    /\ <>[][~FetchStarted]_vars

====
